---- MODULE Spec2Model ----
(***************************************************************************)
(* Model of FeatureFlagClient (src/feature_flag_client.py).                *)
(*                                                                         *)
(* A client object holds an HTTP executor and an environment identifier.   *)
(* Callers invoke evaluate_boolean_variation / evaluate_string_variation;  *)
(* each call validates its default, builds one request, blocks in          *)
(* self._client.post, and then interprets the response.  The only point at *)
(* which calls of different callers interleave is the blocking post, so a  *)
(* call is two steps: the part up to the post, and the part after it.      *)
(***************************************************************************)
EXTENDS Integers, Sequences, FiniteSets, TLC

VARIABLES client, curr_env, calls

vars == <<client, curr_env, calls>>

(***************************************************************************)
(* Bounds                                                                  *)
(***************************************************************************)
NumCallers == 2          \* concurrent callers in SpecConc
MaxContentLen == 2       \* longest non-JSON response body, in byte tokens

Callers == 1..NumCallers

(***************************************************************************)
(* Python values: a type tag and a value atom.                             *)
(***************************************************************************)
PyNone == [t |-> "NoneType", v |-> "null"]
PyTrue == [t |-> "bool", v |-> "true"]
PyFalse == [t |-> "bool", v |-> "false"]
PyStr(s) == [t |-> "str", v |-> s]
PyInt(n) == [t |-> "int", v |-> n]
Unset == [t |-> "unset", v |-> ""]

\* isinstance(x, bool), isinstance(x, str), x is None
IsBool(x) == x.t = "bool"
IsStr(x) == x.t = "str"
IsNone(x) == x.t = "NoneType"

\* variant: JSON spelling of None and of the booleans
StrJsonStyle(x) ==
    CASE x.t = "NoneType" -> "null"
      [] x.t = "bool" -> x.v
      [] OTHER -> x.v

\* str(x), which is also what an f-string renders for these types
Str(x) ==
    CASE x.t = "NoneType" -> "None"
      [] x.t = "bool" -> (IF x.v = "true" THEN "True" ELSE "False")
      [] OTHER -> x.v

(***************************************************************************)
(* Inputs of a call                                                        *)
(***************************************************************************)
Envs == {"dev", "prod"}
FlagKeys == {"flagA", "flagB"}
Defaults == {PyNone, PyTrue, PyFalse, PyStr("fallback"), PyStr(""), PyInt("1")}
AssignmentIds == {PyNone, PyStr("user1")}

(***************************************************************************)
(* Request construction                                                    *)
(***************************************************************************)
\* "/api/flags/{}/env/{}/users/".format(flag_key, self._curr_env)
Url(flag_key, env) == <<"/api/flags/", flag_key, "/env/", env, "/users/">>

EmptyDict == [k \in {} |-> ""]

\* _get_basic_json_data: the returned dict literal has no entries
get_basic_json_data(assignment_id) == EmptyDict

\* {**a, **b}: entries of b win
DictMerge(a, b) ==
    [k \in (DOMAIN a) \cup (DOMAIN b) |-> IF k \in DOMAIN b THEN b[k] ELSE a[k]]

JsonData(default_value, assignment_id) ==
    DictMerge(get_basic_json_data(assignment_id),
              [k \in {"defaultValue"} |-> Str(default_value)])

Headers == [k \in {"Content-Type"} |-> "application/json"]

Request(env, flag_key, default_value, assignment_id) ==
    [verb |-> "POST",
     url |-> Url(flag_key, env),
     json |-> JsonData(default_value, assignment_id),
     headers |-> Headers]

(***************************************************************************)
(* Responses.  The body is a sequence of byte tokens.  A JSON object is    *)
(* the token sequence  { key : value , key : value }  ; anything else is   *)
(* not an object the code can use.                                         *)
(***************************************************************************)
OK == 200
StatusCodes == {OK, 204, 503}

KeyTokens == {"\"flagValue\"", "\"payload\""}
FlagValueTokens == {"null", "\"v1\""}
PayloadTokens == {"null", "true", "false", "\"on\""}
PlainBytes == {"server error", "\n"}

Member(key, tok) == <<key, ":", tok>>

JsonBodies ==
    {<<"{", "}">>}
    \cup {<<"{">> \o Member("\"flagValue\"", f) \o <<"}">> : f \in FlagValueTokens}
    \cup {<<"{">> \o Member("\"payload\"", p) \o <<"}">> : p \in PayloadTokens}
    \cup {<<"{">> \o Member("\"flagValue\"", f) \o <<",">>
                 \o Member("\"payload\"", p) \o <<"}">> :
             f \in FlagValueTokens, p \in PayloadTokens}

PlainBodies == UNION {[1..n -> PlainBytes] : n \in 0..MaxContentLen}

Bodies == JsonBodies \cup PlainBodies

Responses == [status_code : StatusCodes, content : Bodies]

NoResponse == [status_code |-> 0, content |-> <<>>]

\* one JSON value token -> the Python value json.loads produces for it
FromJson(tok) ==
    CASE tok = "null" -> PyNone
      [] tok = "true" -> PyTrue
      [] tok = "false" -> PyFalse
      [] tok = "\"v1\"" -> PyStr("v1")
      [] tok = "\"on\"" -> PyStr("on")
      [] OTHER -> Unset

ValueTokens == FlagValueTokens \cup PayloadTokens

\* number of members of an object of Len(text) tokens, or -1
MemberCount(text) ==
    IF Len(text) = 2 THEN 0
    ELSE IF Len(text) >= 5 /\ (Len(text) - 1) % 4 = 0 THEN (Len(text) - 1) \div 4
    ELSE -1

IsJsonObject(text) ==
    /\ MemberCount(text) >= 0
    /\ text[1] = "{"
    /\ text[Len(text)] = "}"
    /\ \A i \in 1..MemberCount(text) :
          /\ text[4 * i - 2] \in KeyTokens
          /\ text[4 * i - 1] = ":"
          /\ text[4 * i] \in ValueTokens
          /\ (i < MemberCount(text) => text[4 * i + 1] = ",")

MaxOf(S) == CHOOSE x \in S : \A y \in S : y <= x

KeyError == [t |-> "KeyError", v |-> ""]
JSONDecodeError == [t |-> "JSONDecodeError", v |-> ""]
NotSubscriptable == [t |-> "TypeError", v |-> "not subscriptable"]

\* json.loads(response.text): a dict, here by its lookup function, or the
\* decode error
json_loads(text) ==
    IF ~IsJsonObject(text) THEN JSONDecodeError
    ELSE [key \in {"flagValue", "payload"} |->
            LET tok == IF key = "flagValue" THEN "\"flagValue\"" ELSE "\"payload\""
                at == {i \in 1..MemberCount(text) : text[4 * i - 2] = tok}
            IN IF at = {} THEN KeyError ELSE FromJson(text[4 * MaxOf(at)])]

\* d[key] on the dict json.loads returned
DictGetItem(d, key) == d[key]

\* response[key] on the httpx.Response object itself: the class defines no
\* __getitem__, so the subscript raises TypeError
ResponseGetItem(response, key) == NotSubscriptable

\* f"{response.content}": repr of a bytes object
Escape(b) == IF b = "\n" THEN "\\n" ELSE b

BytesRepr(content) ==
    <<"b'">> \o [i \in 1..Len(content) |-> Escape(content[i])] \o <<"'">>

(***************************************************************************)
(* Outcome of the part of a call that runs after the post returned         *)
(***************************************************************************)
Log(level, message) == [level |-> level, message |-> message]

NoOutcome ==
    [kind |-> "none", value |-> Unset, exc |-> "", line |-> 0,
     parsed |-> FALSE, log |-> <<>>]

Return(value, parsed, log) ==
    [kind |-> "return", value |-> value, exc |-> "", line |-> 144,
     parsed |-> parsed, log |-> log]

Raise(exc, line, parsed) ==
    [kind |-> "raise", value |-> Unset, exc |-> exc, line |-> line,
     parsed |-> parsed, log |-> <<>>]

NotFoundMessage(env, flag_key, default_value) ==
    <<"flag_key=", flag_key, " not found or inactive in current env=", env,
      ", falling back to default_value=", Str(default_value), ".">>

NoneMessage(flag_key, variation_value, default_value) ==
    <<"flag_key=", flag_key, " evaluates to variation_value=",
      Str(variation_value), ", falling back to default_value=",
      Str(default_value), ".">>

ValidMessage(flag_key, variation_value) ==
    <<"flag_key=", flag_key, " evaluates to a valid variation_value=",
      Str(variation_value), ".">>

FailedMessage(default_value, content) ==
    <<"Failed to evaluate feature flag variation. ",
      "Using the default_value=", Str(default_value), ". Error message: ">>
    \o BytesRepr(content) \o <<". ">>

\* the status-200 branch, lines 109-135; response.text is the decoded
\* response.content, token for token
InterpretOK(env, flag_key, default_value, response) ==
    LET response_text == json_loads(response.content) IN
    IF response_text = JSONDecodeError
    THEN Raise("JSONDecodeError", 109, TRUE)
    ELSE
      LET variation_name == ResponseGetItem(response, "flagValue") IN
      IF variation_name = NotSubscriptable
      THEN Raise("TypeError", 110, TRUE)
      ELSE
        LET variation_value == DictGetItem(response_text, "payload") IN
        IF variation_value = KeyError
        THEN Raise("KeyError", 111, TRUE)
        ELSE IF IsNone(variation_name)
        THEN Return(default_value, TRUE,
                    <<Log("ERROR", NotFoundMessage(env, flag_key, default_value))>>)
        ELSE IF IsNone(variation_value)
        THEN Return(default_value, TRUE,
                    <<Log("INFO", NoneMessage(flag_key, variation_value, default_value))>>)
        ELSE Return(variation_value, TRUE,
                    <<Log("INFO", ValidMessage(flag_key, variation_value))>>)

\* the other branch, lines 137-143
InterpretFailed(default_value, response) ==
    Return(default_value, FALSE,
           <<Log("ERROR", FailedMessage(default_value, response.content))>>)

\* variant: every 2xx status takes the success branch
InterpretAny2xx(env, flag_key, default_value, response) ==
    IF response.status_code >= 200 /\ response.status_code < 300
    THEN InterpretOK(env, flag_key, default_value, response)
    ELSE InterpretFailed(default_value, response)

\* lines 107-144
Interpret(env, flag_key, default_value, response) ==
    IF response.status_code = OK
    THEN InterpretOK(env, flag_key, default_value, response)
    ELSE InterpretFailed(default_value, response)

(***************************************************************************)
(* State                                                                   *)
(*   client, curr_env : the two attributes __init__ stores                 *)
(*   calls[c]         : the call caller c is in, or has last finished      *)
(***************************************************************************)
IdleCall ==
    [pc |-> "idle", method |-> "", flag_key |-> "", default_value |-> Unset,
     assignment_id |-> Unset, requests |-> <<>>, response |-> NoResponse,
     outcome |-> NoOutcome]

\* the call up to and including self._client.post(...), which blocks
Posted(method, flag_key, default_value, assignment_id) ==
    [pc |-> "awaiting", method |-> method, flag_key |-> flag_key,
     default_value |-> default_value, assignment_id |-> assignment_id,
     requests |-> <<Request(curr_env, flag_key, default_value, assignment_id)>>,
     response |-> NoResponse, outcome |-> NoOutcome]

\* the call ended by the raise under the isinstance test
Rejected(method, flag_key, default_value, assignment_id, line) ==
    [pc |-> "done", method |-> method, flag_key |-> flag_key,
     default_value |-> default_value, assignment_id |-> assignment_id,
     requests |-> <<>>, response |-> NoResponse,
     outcome |-> Raise("TypeError", line, FALSE)]

Init ==
    /\ client = "http_client"
    /\ curr_env \in Envs
    /\ calls = [c \in Callers |-> IdleCall]

BooleanAccepts(default_value) == IsBool(default_value) \/ IsNone(default_value)

\* variant: the empty string is refused, as the error text suggests
StringAcceptsNonEmpty(default_value) ==
    (IsStr(default_value) /\ default_value.v # "") \/ IsNone(default_value)

StringAccepts(default_value) == IsStr(default_value) \/ IsNone(default_value)

evaluate_boolean_variation(c, flag_key, default_value, assignment_id) ==
    /\ calls[c].pc \in {"idle", "done"}
    /\ calls' = [calls EXCEPT ![c] =
          IF BooleanAccepts(default_value)
          THEN Posted("boolean", flag_key, default_value, assignment_id)
          ELSE Rejected("boolean", flag_key, default_value, assignment_id, 50)]
    /\ UNCHANGED <<client, curr_env>>

\* variant: the flag key is kept on the shared client object
evaluate_string_variation_keeps_key(c, flag_key, default_value, assignment_id) ==
    /\ calls[c].pc \in {"idle", "done"}
    /\ calls' = [calls EXCEPT ![c] =
          IF StringAccepts(default_value)
          THEN Posted("string", flag_key, default_value, assignment_id)
          ELSE Rejected("string", flag_key, default_value, assignment_id, 75)]
    /\ curr_env' = flag_key
    /\ UNCHANGED client

evaluate_string_variation(c, flag_key, default_value, assignment_id) ==
    /\ calls[c].pc \in {"idle", "done"}
    /\ calls' = [calls EXCEPT ![c] =
          IF StringAccepts(default_value)
          THEN Posted("string", flag_key, default_value, assignment_id)
          ELSE Rejected("string", flag_key, default_value, assignment_id, 75)]
    /\ UNCHANGED <<client, curr_env>>

\* variant: a status other than 200 is answered by posting once more
post_returns_retrying(c, response) ==
    /\ calls[c].pc = "awaiting"
    /\ calls' = [calls EXCEPT ![c].pc = "done",
                              ![c].response = response,
                              ![c].requests =
                                  IF response.status_code = OK THEN @
                                  ELSE @ \o @,
                              ![c].outcome =
                                  Interpret(curr_env, calls[c].flag_key,
                                            calls[c].default_value, response)]
    /\ UNCHANGED <<client, curr_env>>

\* the executor returns a response and the call runs to its end
post_returns(c, response) ==
    /\ calls[c].pc = "awaiting"
    /\ calls' = [calls EXCEPT ![c].pc = "done",
                              ![c].response = response,
                              ![c].outcome =
                                  Interpret(curr_env, calls[c].flag_key,
                                            calls[c].default_value, response)]
    /\ UNCHANGED <<client, curr_env>>

\* the executor's post raises; nothing in the call catches it
post_raises(c) ==
    /\ calls[c].pc = "awaiting"
    /\ calls' = [calls EXCEPT ![c].pc = "done",
                              ![c].outcome = Raise("TransportError", 106, FALSE)]
    /\ UNCHANGED <<client, curr_env>>

\* one caller, every input
Next ==
    \/ \E flag_key \in FlagKeys, default_value \in Defaults,
          assignment_id \in AssignmentIds :
           evaluate_boolean_variation(1, flag_key, default_value, assignment_id)
    \/ \E flag_key \in FlagKeys, default_value \in Defaults,
          assignment_id \in AssignmentIds :
           evaluate_string_variation(1, flag_key, default_value, assignment_id)
    \/ \E response \in Responses : post_returns(1, response)
    \/ post_raises(1)

Spec == Init /\ [][Next]_vars

\* several callers sharing the client
ConcDefaults == {PyNone, PyTrue, PyStr("fallback")}
ConcResponses ==
    [status_code : {OK, 503},
     content : {<<"server error">>,
                <<"{">> \o Member("\"flagValue\"", "\"v1\"") \o <<",">>
                        \o Member("\"payload\"", "true") \o <<"}">>}]

NextConc ==
    \/ \E c \in Callers, flag_key \in FlagKeys, default_value \in ConcDefaults :
           evaluate_boolean_variation(c, flag_key, default_value, PyNone)
    \/ \E c \in Callers, flag_key \in FlagKeys, default_value \in ConcDefaults :
           evaluate_string_variation(c, flag_key, default_value, PyNone)
    \/ \E c \in Callers, response \in ConcResponses : post_returns(c, response)
    \/ \E c \in Callers : post_raises(c)

SpecConc == Init /\ [][NextConc]_vars

(***************************************************************************)
(* Vocabulary of the properties                                            *)
(***************************************************************************)
Done(c) == calls[c].pc = "done"

\* the post of c's call returned a response
Answered(c) == Done(c) /\ calls[c].response # NoResponse

\* the default is present and not of the entry point's type
WrongType(c) ==
    \/ calls[c].method = "boolean" /\ calls[c].default_value.t \notin {"bool", "NoneType"}
    \/ calls[c].method = "string" /\ calls[c].default_value.t \notin {"str", "NoneType"}

\* the call ended by the raise of the entry point, before any request
RaisedInvalidArgument(c) ==
    /\ Done(c)
    /\ calls[c].outcome.kind = "raise"
    /\ calls[c].outcome.exc = "TypeError"
    /\ calls[c].outcome.line \in {50, 75}

Returned(c, value) ==
    Done(c) /\ calls[c].outcome.kind = "return" /\ calls[c].outcome.value = value

Mentions(message, part) == \E i \in 1..Len(message) : message[i] = part

ContainsSeq(message, sub) ==
    \E k \in 0..(Len(message) - Len(sub)) :
        \A i \in 1..Len(sub) : message[k + i] = sub[i]

\* exactly one log record, of the given level
OneLog(c, level) ==
    Len(calls[c].outcome.log) = 1 /\ calls[c].outcome.log[1].level = level

FullBody(f, p) ==
    <<"{">> \o Member("\"flagValue\"", f) \o <<",">> \o Member("\"payload\"", p) \o <<"}">>
FlagOnlyBody(f) == <<"{">> \o Member("\"flagValue\"", f) \o <<"}">>
PayloadOnlyBody(p) == <<"{">> \o Member("\"payload\"", p) \o <<"}">>

\* bodies with a non-null flagValue and a non-null payload
FoundBodies ==
    {FullBody(f, p) : f \in FlagValueTokens \ {"null"}, p \in PayloadTokens \ {"null"}}
\* bodies whose flagValue is null or absent
NotFoundBodies ==
    {FullBody("null", p) : p \in PayloadTokens}
    \cup {PayloadOnlyBody(p) : p \in PayloadTokens} \cup {<<"{", "}">>}
\* bodies with a non-null flagValue and a null or absent payload
NoValueBodies ==
    {FullBody(f, "null") : f \in FlagValueTokens \ {"null"}}
    \cup {FlagOnlyBody(f) : f \in FlagValueTokens \ {"null"}}

PayloadOf(body) == FromJson(body[8])

\* the string form of a default, spelled out
StringForm(x) ==
    IF x = PyNone THEN "None"
    ELSE IF x = PyTrue THEN "True"
    ELSE IF x = PyFalse THEN "False"
    ELSE x.v

(***************************************************************************)
(* C1: a 200 response whose flagValue and payload are both non-null makes  *)
(* the call return that payload, whatever the default, with one INFO log   *)
(* naming the flag key.                                                    *)
(***************************************************************************)
C1_PayloadReturned ==
    \A c \in Callers :
        (Answered(c) /\ calls[c].response.status_code = OK
                     /\ calls[c].response.content \in FoundBodies)
        => /\ Returned(c, PayloadOf(calls[c].response.content))
           /\ OneLog(c, "INFO")
           /\ Mentions(calls[c].outcome.log[1].message, calls[c].flag_key)

(***************************************************************************)
(* C2: a 200 response whose flagValue is null or absent makes the call     *)
(* return the default, whatever the payload, with one ERROR log naming the *)
(* flag key, the environment and the default.                              *)
(***************************************************************************)
C2_NotFoundFallsBack ==
    \A c \in Callers :
        (Answered(c) /\ calls[c].response.status_code = OK
                     /\ calls[c].response.content \in NotFoundBodies)
        => /\ Returned(c, calls[c].default_value)
           /\ OneLog(c, "ERROR")
           /\ Mentions(calls[c].outcome.log[1].message, calls[c].flag_key)
           /\ Mentions(calls[c].outcome.log[1].message, curr_env)
           /\ Mentions(calls[c].outcome.log[1].message,
                       StringForm(calls[c].default_value))

(***************************************************************************)
(* C3: a 200 response with a non-null flagValue and a null or absent       *)
(* payload makes the call return the default, with one INFO log naming the *)
(* flag key and the default.                                               *)
(***************************************************************************)
C3_NoValueFallsBack ==
    \A c \in Callers :
        (Answered(c) /\ calls[c].response.status_code = OK
                     /\ calls[c].response.content \in NoValueBodies)
        => /\ Returned(c, calls[c].default_value)
           /\ OneLog(c, "INFO")
           /\ Mentions(calls[c].outcome.log[1].message, calls[c].flag_key)
           /\ Mentions(calls[c].outcome.log[1].message,
                       StringForm(calls[c].default_value))

(***************************************************************************)
(* C4: a response with a status other than 200 makes the call return the   *)
(* default without parsing the body, with one ERROR log that contains the  *)
(* default and the response content as the message renders it; the call    *)
(* does not raise.                                                         *)
(***************************************************************************)
C4_FailureStatusFallsBack ==
    \A c \in Callers :
        (Answered(c) /\ calls[c].response.status_code # OK)
        => /\ Returned(c, calls[c].default_value)
           /\ ~calls[c].outcome.parsed
           /\ OneLog(c, "ERROR")
           /\ Mentions(calls[c].outcome.log[1].message,
                       StringForm(calls[c].default_value))
           /\ ContainsSeq(calls[c].outcome.log[1].message,
                          BytesRepr(calls[c].response.content))

C4_Witness ==
    /\ Answered(1)
    /\ calls[1].method = "boolean"
    /\ calls[1].default_value = PyTrue
    /\ calls[1].response = [status_code |-> 503, content |-> <<"server error">>]
    /\ Returned(1, PyTrue)
    /\ ContainsSeq(calls[1].outcome.log[1].message, <<"b'", "server error", "'">>)

(***************************************************************************)
(* C5: a call whose default is present and of the wrong type ends with the *)
(* entry point's TypeError, having sent no request and logged nothing; a   *)
(* call whose default is absent or of the right type is never ended that   *)
(* way and does send its request.                                          *)
(***************************************************************************)
C5_DefaultValidation ==
    \A c \in Callers :
        calls[c].pc # "idle"
        => /\ WrongType(c) =>
                /\ RaisedInvalidArgument(c)
                /\ calls[c].requests = <<>>
                /\ calls[c].response = NoResponse
                /\ calls[c].outcome.log = <<>>
           /\ ~WrongType(c) =>
                /\ ~RaisedInvalidArgument(c)
                /\ calls[c].requests # <<>>

C5_Witness ==
    /\ calls[1].method = "string"
    /\ calls[1].default_value = PyTrue
    /\ RaisedInvalidArgument(1)
    /\ calls[1].requests = <<>>

(***************************************************************************)
(* C6: a call raises only the entry point's TypeError, before any request, *)
(* or the failure of the post itself; a call whose post returned a         *)
(* response ends by returning a value.                                     *)
(***************************************************************************)
C6_OnlyArgumentAndTransportErrors ==
    \A c \in Callers :
        /\ (Done(c) /\ calls[c].outcome.kind = "raise")
           => \/ RaisedInvalidArgument(c) /\ calls[c].requests = <<>>
              \/ calls[c].outcome.exc = "TransportError"
        /\ Answered(c) => calls[c].outcome.kind = "return"

(***************************************************************************)
(* C7: every value evaluate_boolean_variation returns is a boolean and     *)
(* every value evaluate_string_variation returns is a string.              *)
(***************************************************************************)
C7_ReturnTypeMatchesEntryPoint ==
    \A c \in Callers :
        (Done(c) /\ calls[c].outcome.kind = "return")
        => /\ calls[c].method = "boolean" => calls[c].outcome.value.t = "bool"
           /\ calls[c].method = "string" => calls[c].outcome.value.t = "str"

(***************************************************************************)
(* C8: the JSON body of every request carries a defaultValue entry whose   *)
(* value is the string form of the call's default: "True" / "False" for a  *)
(* boolean, the string itself for a string, "None" for an absent default.  *)
(***************************************************************************)
C8_DefaultValueTransmitted ==
    \A c \in Callers :
        \A i \in 1..Len(calls[c].requests) :
            /\ "defaultValue" \in DOMAIN calls[c].requests[i].json
            /\ calls[c].requests[i].json["defaultValue"]
                   = StringForm(calls[c].default_value)

C8_Witness ==
    /\ calls[1].pc = "awaiting"
    /\ calls[1].default_value = PyNone
    /\ Len(calls[1].requests) = 1
    /\ calls[1].requests[1].json["defaultValue"] = "None"

(***************************************************************************)
(* C9: no step of any caller changes the stored environment or executor,   *)
(* and two finished calls with the same arguments and the same response    *)
(* (or both with a failed post) have the same outcome, whatever the other  *)
(* callers did before or in between.                                       *)
(***************************************************************************)
SameCall(a, b) ==
    /\ calls[a].method = calls[b].method
    /\ calls[a].flag_key = calls[b].flag_key
    /\ calls[a].default_value = calls[b].default_value
    /\ calls[a].assignment_id = calls[b].assignment_id
    /\ calls[a].response = calls[b].response
    /\ (calls[a].outcome.exc = "TransportError")
           = (calls[b].outcome.exc = "TransportError")

Deterministic ==
    \A a, b \in Callers :
        (Done(a) /\ Done(b) /\ SameCall(a, b))
        => /\ calls[a].outcome = calls[b].outcome
           /\ calls[a].requests = calls[b].requests

C9_CallsIndependent ==
    [][client' = client /\ curr_env' = curr_env /\ Deterministic']_vars

C9_Witness ==
    /\ Answered(1) /\ Answered(2)
    /\ SameCall(1, 2)
    /\ calls[1].response.status_code = 503
    /\ calls[1].default_value = PyStr("fallback")
    /\ Returned(1, PyStr("fallback")) /\ Returned(2, PyStr("fallback"))

(***************************************************************************)
(* C10: a call that passed validation has issued exactly one POST, to      *)
(* /api/flags/{flag_key}/env/{curr_env}/users/, and it had issued it       *)
(* before its outcome was decided; no response adds a second request.      *)
(***************************************************************************)
OnePost(c) ==
    /\ Len(calls[c].requests) = 1
    /\ calls[c].requests[1].verb = "POST"
    /\ calls[c].requests[1].url
           = <<"/api/flags/", calls[c].flag_key, "/env/", curr_env, "/users/">>

C10_ExactlyOnePost ==
    [][\A c \in Callers :
          /\ (calls'[c].pc # "idle" /\ ~WrongType(c)') => OnePost(c)'
          /\ (calls[c].pc = "awaiting" /\ calls'[c].pc = "done")
                => OnePost(c) /\ calls'[c].requests = calls[c].requests]_vars

C10_Witness ==
    /\ Answered(1)
    /\ calls[1].response.status_code = 503
    /\ calls[1].flag_key = "flagB"
    /\ curr_env = "prod"
    /\ calls[1].requests
           = <<[verb |-> "POST",
                url |-> <<"/api/flags/", "flagB", "/env/", "prod", "/users/">>,
                json |-> [k \in {"defaultValue"} |-> "False"],
                headers |-> [k \in {"Content-Type"} |-> "application/json"]]>>

====
